---- MODULE Spec2Model ----
(***************************************************************************)
(* A model of access2sqlite: the table lister (get_table_names), the       *)
(* chunked table copier (convert_table), the per-table loop                *)
(* (convert_all_tables) and the two front-ends that drive a run (main of   *)
(* access2sqlite.py, AccessConverterGUI of access2sqlite_gui.py).          *)
(*                                                                         *)
(* The source database and the destination file are the environment: the   *)
(* source is a catalog of (name, type) rows, a content per table and a     *)
(* dialect that accepts or rejects the two pagination clauses the copier   *)
(* sends; the destination maps a table name to the rows it holds.          *)
(* A table name is the sequence of its code points, so that sorted() and   *)
(* startswith() are computed on characters as Python computes them.        *)
(***************************************************************************)
EXTENDS Integers, Sequences, FiniteSets, TLC

\* ------------------------------------------------------------------ bounds
\* rows of one source table
MaxRows == 2
\* identity values are drawn from 1..MaxId, so tables can be sparse
MaxId == 3
\* chunk_size is drawn from 1..MaxChunk
MaxChunk == 2
\* rows of the catalog in the lister's own specification
MaxCatalog == 3
\* conversion threads the interactive front-end starts in one session
MaxThreads == 2

\* ------------------------------------------------------------------ names
\* "Zeta", "alpha", "MSysX", "MSy" as code points
Zeta == <<90, 101, 116, 97>>
alpha == <<97, 108, 112, 104, 97>>
MSysX == <<77, 83, 121, 115, 88>>
MSy == <<77, 83, 121>>
MSysPrefix == <<77, 83, 121, 115>>

CatalogNames == {Zeta, alpha, MSysX, MSy}
TableTypes == {"TABLE", "VIEW", "SYSTEM TABLE"}
CatalogRows == [table_name : CatalogNames, table_type : TableTypes]

\* the catalog of the database the runs convert: two user tables and the
\* system table every Access file carries, in the catalog's native order
RunCatalog ==
    << [table_name |-> alpha, table_type |-> "TABLE"],
       [table_name |-> MSysX, table_type |-> "SYSTEM TABLE"],
       [table_name |-> Zeta, table_type |-> "TABLE"] >>

RunNames == {alpha, Zeta}

\* ------------------------------------------------------- sequence helpers
Min(a, b) == IF a < b THEN a ELSE b

Range(s) == {s[k] : k \in 1..Len(s)}

RECURSIVE SeqsUpTo(_, _)
\* the sequences over S of length at most n
SeqsUpTo(S, n) ==
    IF n = 0 THEN {<<>>}
    ELSE LET shorter == SeqsUpTo(S, n - 1)
         IN shorter \cup {Append(s, x) : s \in {t \in shorter : Len(t) = n - 1}, x \in S}

Distinct(s) == \A j, k \in 1..Len(s) : j # k => s[j] # s[k]

\* str.startswith(prefix)
startswith(name, prefix) ==
    /\ Len(name) >= Len(prefix)
    /\ SubSeq(name, 1, Len(prefix)) = prefix

\* Python's str < str: lexicographic on code points, a proper prefix first
StrLess(a, b) ==
    \E k \in 1..(Min(Len(a), Len(b)) + 1) :
        /\ \A j \in 1..(k - 1) : a[j] = b[j]
        /\ \/ k = Len(a) + 1 /\ k <= Len(b)
           \/ k <= Len(a) /\ k <= Len(b) /\ a[k] < b[k]

RECURSIVE sorted(_)
\* sorted(list(set(...))): the names of the set S in increasing str order
sorted(S) ==
    IF S = {} THEN <<>>
    ELSE LET least == CHOOSE x \in S : \A y \in S \ {x} : StrLess(x, y)
         IN <<least>> \o sorted(S \ {least})

RECURSIVE SortAsc(_)
\* the numbers of the set S in increasing order (ORDER BY ID)
SortAsc(S) ==
    IF S = {} THEN <<>>
    ELSE LET least == CHOOSE x \in S : \A y \in S : x <= y
         IN <<least>> \o SortAsc(S \ {least})

\* ------------------------------------------------------------ get_table_names
\* The first enumeration, cursor.tables(), yields the catalog's rows in order
\* and, when raised, raises after `yielded` of them; the names appended before
\* the exception stay in the list. The fallback enumeration,
\* cursor.tables(tableType='TABLE'), yields the rows of type TABLE and appends
\* every name unfiltered.
FirstEnumeration(catalog, n) ==
    {catalog[k].table_name : k \in
        {j \in 1..n : /\ catalog[j].table_type \in {"TABLE", "VIEW"}
                      /\ ~startswith(catalog[j].table_name, MSysPrefix)}}

FallbackEnumeration(catalog) ==
    {catalog[k].table_name : k \in
        {j \in 1..Len(catalog) : catalog[j].table_type = "TABLE"}}

get_table_names(catalog, raised, yielded) ==
    IF raised
    THEN sorted(FirstEnumeration(catalog, yielded) \cup FallbackEnumeration(catalog))
    ELSE sorted(FirstEnumeration(catalog, Len(catalog)))

\* ------------------------------------------------------------ the source
\* A row is a number: its identity value in a table that has an ID column, its
\* place in the table otherwise. rows is the table in the source's native
\* order, the order SELECT * without ORDER BY returns.
Broken == [broken |-> TRUE, columns |-> <<>>, rows |-> <<>>]

IdTables ==
    {[broken |-> FALSE, columns |-> <<"ID", "Name">>, rows |-> r] :
        r \in {s \in SeqsUpTo(1..MaxId, MaxRows) : Distinct(s)}}

PlainTables ==
    {[broken |-> FALSE, columns |-> <<"Name">>, rows |-> [k \in 1..n |-> k]] :
        n \in 0..MaxRows}

TableContents == {Broken} \cup IdTables \cup PlainTables

\* what an earlier conversion of another database left in the destination
StaleRows == <<0>>
NoTable == [exists |-> FALSE, rows |-> <<>>]
StaleTable == [exists |-> TRUE, rows |-> StaleRows]

VARIABLES
    frontend,         \* "cli" (main of access2sqlite.py) or "gui"
    catalog,          \* the rows cursor.tables() yields, in the source's order
    sourceOpens,      \* pyodbc.connect succeeds
    db,               \* table name -> content
    limitOK,          \* the dialect accepts ... ORDER BY ID LIMIT n
    offsetOK,         \* the dialect accepts ... OFFSET k ROWS FETCH NEXT n ROWS ONLY
    chunk_size,
    dest,             \* the SQLite file: table name -> [exists, rows]
    pc,               \* where the worker is
    stop_conversion,  \* AccessConverterGUI.stop_conversion
    tables,           \* convert_all_tables: tables
    i,                \* convert_all_tables: index of the table in the loop
    has_id_column,    \* convert_table locals
    offset,
    first_chunk,
    df,
    status,           \* table name -> its state in this run
    calls,            \* the table names convert_table was called with, this run
    writes,           \* the to_sql calls of this run: [table, mode, rows]
    cancelled,        \* update_progress raised in this run
    report,           \* what the front-end told the user at the end of the run
    ret,              \* what convert_all_tables returned
    prevValid,        \* an earlier run ended normally and without cancellation
    prevDest,         \* the destination at the end of that run
    openConns,        \* the connections opened and not closed: <<table, "access" | "sqlite">>
    info,             \* get_database_info: info
    counted,          \* get_database_info: the tables a count query was issued for
    inputPath,        \* main: args.access_db is "ok", "missing" (no such file) or
                      \* "badext" (not .accdb/.mdb); "none" before it is parsed
    exit_code,        \* main: the exit code of the process, -1 while it runs
    convert_btn,      \* AccessConverterGUI: state of the Convert button
    stop_btn,         \* AccessConverterGUI: state of the Stop button
    workers,          \* AccessConverterGUI: where each conversion thread is
    after_queue       \* AccessConverterGUI: callbacks handed to root.after

vars == <<frontend, catalog, sourceOpens, db, limitOK, offsetOK, chunk_size, dest, pc,
          stop_conversion, tables, i, has_id_column, offset, first_chunk, df,
          status, calls, writes, cancelled, report, ret, prevValid, prevDest,
          openConns, info, counted, inputPath, exit_code, convert_btn, stop_btn,
          workers, after_queue>>

static == <<frontend, catalog, sourceOpens, db, limitOK, offsetOK, chunk_size>>
locals == <<has_id_column, offset, first_chunk, df>>
history == <<prevValid, prevDest>>
infoVars == <<info, counted>>
cliVars == <<inputPath, exit_code>>
guiVars == <<convert_btn, stop_btn, workers, after_queue>>
extra == <<infoVars, cliVars, guiVars>>

\* ------------------------------------------------------------ convert_table
\* a probe that takes every table for one with an ID column
HasIdColumnAlways(columns) == TRUE

\* has_id_column = 'ID' in columns or 'id' in columns
HasIdColumn(columns) == "ID" \in Range(columns) \/ "id" \in Range(columns)

\* the query of one turn of the loop: the whole table on the first turn, then
\* WHERE ID > offset ORDER BY ID LIMIT chunk_size, or
\* OFFSET offset ROWS FETCH NEXT chunk_size ROWS ONLY
Query(first, hasId, off, n) ==
    IF first THEN [kind |-> "all", offset |-> 0, limit |-> 0]
    ELSE IF hasId THEN [kind |-> "limit", offset |-> off, limit |-> n]
    ELSE [kind |-> "offset", offset |-> off, limit |-> n]

\* pd.read_sql(query, access_conn) on table t: the rows, or an exception whose
\* text (pandas quotes the statement in it) mentions OFFSET or not
read_sql(t, q) ==
    LET rows == db[t].rows
    IN CASE q.kind = "all" ->
              [ok |-> TRUE, rows |-> rows, mentionsOFFSET |-> FALSE]
         [] q.kind = "limit" ->
              IF limitOK
              THEN LET above == SortAsc({r \in Range(rows) : r > q.offset})
                   IN [ok |-> TRUE,
                       rows |-> SubSeq(above, 1, Min(q.limit, Len(above))),
                       mentionsOFFSET |-> FALSE]
              ELSE [ok |-> FALSE, rows |-> <<>>, mentionsOFFSET |-> FALSE]
         [] q.kind = "offset" ->
              IF offsetOK
              THEN [ok |-> TRUE,
                    rows |-> SubSeq(rows, q.offset + 1,
                                    Min(q.offset + q.limit, Len(rows))),
                    mentionsOFFSET |-> FALSE]
              ELSE [ok |-> FALSE, rows |-> <<>>, mentionsOFFSET |-> TRUE]

\* a copier that replaces on every write
IfExistsAlwaysReplace(first) == "replace"

\* the if_exists argument of df.to_sql
IfExists(first) == IF first THEN "replace" ELSE "append"

\* a sink whose replace keeps the rows the table held
to_sqlKeepingRows(d, t, rows, mode) ==
    [d EXCEPT ![t] = [exists |-> TRUE, rows |-> d[t].rows \o rows]]

\* df.to_sql(table_name, sqlite_conn, if_exists=mode, index=False)
to_sql(d, t, rows, mode) ==
    IF mode = "replace" \/ ~d[t].exists
    THEN [d EXCEPT ![t] = [exists |-> TRUE, rows |-> rows]]
    ELSE [d EXCEPT ![t] = [exists |-> TRUE, rows |-> d[t].rows \o rows]]

\* offset += len(df)
NextOffset(off, batch) == off + Len(batch)

\* ------------------------------------------------------------ convert_all_tables
\* a loop without the except clause: the first failure ends it
NextTableAborting(k, raisedInTable) ==
    IF raisedInTable THEN Len(tables) + 1 ELSE k + 1

\* a loop that takes the table that raised once more
NextTableRetrying(k, raisedInTable) ==
    IF raisedInTable THEN k ELSE k + 1

\* the for loop's next turn, after convert_table returned or raised: the
\* except clause logs and continues
NextTable(k, raisedInTable) == k + 1

\* progress_callback of the front-end: None for the command line
HasCallback(fe) == fe = "gui"

ResetLocals ==
    /\ has_id_column' = FALSE
    /\ offset' = 0
    /\ first_chunk' = TRUE
    /\ df' = <<>>

\* access_conn.close(); sqlite_conn.close() are the last statements of the try
\* block: they run when the loop ended by break, and the except clause that
\* logs and re-raises closes nothing
ConnsAtExit(conns, t, st) ==
    IF st = "Completed"
    THEN conns \ {<<t, "access">>, <<t, "sqlite">>}
    ELSE conns

\* convert_table ends for tables[i]: it returned (Completed) or raised (Failed)
TableEnds(st) ==
    /\ status' = [status EXCEPT ![tables[i]] = st]
    /\ openConns' = ConnsAtExit(openConns, tables[i], st)
    /\ i' = NextTable(i, st = "Failed")
    /\ pc' = "loop"
    /\ ResetLocals

\* ------------------------------------------------------------ actions
\* Convert pressed, or the command line started: a run begins
BeginRun ==
    /\ pc \in {"idle", "done"}
    /\ stop_conversion' = FALSE
    /\ tables' = <<>>
    /\ i' = 0
    /\ status' = [t \in RunNames |-> "Unstarted"]
    /\ calls' = <<>>
    /\ writes' = <<>>
    /\ cancelled' = FALSE
    /\ report' = "none"
    /\ ret' = "pending"
    /\ pc' = "list"
    /\ openConns' = {}
    /\ UNCHANGED <<static, extra, dest, locals>>

StartRun == pc = "idle" /\ BeginRun /\ UNCHANGED history

\* the same, remembering how the run before it ended and what it left in the
\* destination
StartRunAfter ==
    /\ BeginRun
    /\ prevValid' = (pc = "done" /\ report = "success" /\ ~cancelled)
    /\ prevDest' = dest

\* tables = self.get_table_names(); the source that cannot be opened raises,
\* and the front-end reports the error
ListTables ==
    /\ pc = "list"
    /\ \/ /\ sourceOpens
          /\ \E raised \in BOOLEAN, yielded \in 0..Len(catalog) :
                tables' = get_table_names(catalog, raised, yielded)
          /\ i' = 1
          /\ pc' = "loop"
          /\ UNCHANGED <<report, ret>>
       \/ /\ ~sourceOpens
          /\ report' = "error"
          /\ ret' = "raised"
          /\ pc' = "done"
          /\ UNCHANGED <<tables, i>>
    /\ UNCHANGED <<static, extra, dest, stop_conversion, locals, status, calls, writes,
                   cancelled, history, openConns>>

\* self.convert_table(table_name, ...): connect to both databases
BeginTable ==
    /\ pc = "loop"
    /\ i <= Len(tables)
    /\ calls' = Append(calls, tables[i])
    /\ status' = [status EXCEPT ![tables[i]] = "Probing"]
    /\ openConns' = openConns \cup {<<tables[i], "access">>, <<tables[i], "sqlite">>}
    /\ pc' = "probe"
    /\ UNCHANGED <<static, extra, dest, stop_conversion, tables, i, locals, writes,
                   cancelled, report, ret, history>>

\* SELECT TOP 1 * FROM [table]; columns; has_id_column; offset = 0; first_chunk
Probe ==
    /\ pc = "probe"
    /\ \/ /\ db[tables[i]].broken
          /\ TableEnds("Failed")
       \/ /\ ~db[tables[i]].broken
          /\ has_id_column' = HasIdColumn(db[tables[i]].columns)
          /\ offset' = 0
          /\ first_chunk' = TRUE
          /\ df' = <<>>
          /\ status' = [status EXCEPT ![tables[i]] = "Paging"]
          /\ pc' = "read"
          /\ UNCHANGED <<i, openConns>>
    /\ UNCHANGED <<static, extra, dest, stop_conversion, tables, calls, writes,
                   cancelled, report, ret, history>>

\* one read of the loop: the query, pd.read_sql, the except clause around it
\* and the test of df.empty
ReadBatch ==
    /\ pc = "read"
    /\ LET t == tables[i]
           r == read_sql(t, Query(first_chunk, has_id_column, offset, chunk_size))
           all == read_sql(t, Query(TRUE, has_id_column, offset, chunk_size))
           fallback == ~r.ok /\ r.mentionsOFFSET /\ ~has_id_column
           \* "rows", "break" or "raise"
           outcome ==
               IF r.ok THEN "rows"
               ELSE IF fallback
                    THEN IF first_chunk
                         THEN (IF all.ok THEN "rows" ELSE "raise")
                         ELSE "break"
                    ELSE "raise"
           batch == IF r.ok THEN r.rows ELSE all.rows
       IN \/ /\ outcome = "rows" /\ batch # <<>>
             /\ df' = batch
             /\ pc' = "write"
             /\ UNCHANGED <<status, i, has_id_column, offset, first_chunk, openConns>>
          \/ /\ outcome = "break" \/ (outcome = "rows" /\ batch = <<>>)
             /\ TableEnds("Completed")
          \/ /\ outcome = "raise"
             /\ TableEnds("Failed")
    /\ UNCHANGED <<static, extra, dest, stop_conversion, tables, calls, writes,
                   cancelled, report, ret, history>>

\* df.to_sql(...); first_chunk = False; offset += len(df)
WriteBatch ==
    /\ pc = "write"
    /\ LET t == tables[i]
           mode == IfExists(first_chunk)
       IN /\ dest' = to_sql(dest, t, df, mode)
          /\ writes' = Append(writes, [table |-> t, mode |-> mode, rows |-> df])
    /\ first_chunk' = FALSE
    /\ offset' = NextOffset(offset, df)
    /\ pc' = IF HasCallback(frontend) THEN "progress" ELSE "read"
    /\ UNCHANGED <<static, extra, stop_conversion, tables, i, has_id_column, df, status,
                   calls, cancelled, report, ret, history, openConns>>

\* progress_callback(table_name, offset, ...): update_progress raises when the
\* stop flag is set; convert_table logs and re-raises
UpdateProgress ==
    /\ pc = "progress"
    /\ \/ /\ stop_conversion
          /\ cancelled' = TRUE
          /\ TableEnds("Failed")
       \/ /\ ~stop_conversion
          /\ pc' = "read"
          /\ UNCHANGED <<cancelled, status, i, locals, openConns>>
    /\ UNCHANGED <<static, extra, dest, stop_conversion, tables, calls, writes,
                   report, ret, history>>

\* the loop is over: convert_all_tables returns (None) and the front-end
\* says "Conversion completed successfully!"
FinishRun ==
    /\ pc = "loop"
    /\ i > Len(tables)
    /\ ret' = "None"
    /\ report' = "success"
    /\ pc' = "done"
    /\ UNCHANGED <<static, extra, dest, stop_conversion, tables, i, locals, status,
                   calls, writes, cancelled, history, openConns>>

\* the Stop button, enabled while a run is in progress: stop_conversion_func
Stop ==
    /\ frontend = "gui"
    /\ pc \notin {"idle", "done"}
    /\ ~stop_conversion
    /\ stop_conversion' = TRUE
    /\ UNCHANGED <<static, extra, dest, pc, tables, i, locals, status, calls, writes,
                   cancelled, report, ret, history, openConns>>

\* ------------------------------------------------------------ specification
\* what the parts of the program a specification leaves out start with
ExtraInit ==
    /\ info = [tables |-> <<>>, total_records |-> 0]
    /\ counted = <<>>
    /\ inputPath = "none"
    /\ exit_code = -1
    /\ convert_btn = "normal"
    /\ stop_btn = "disabled"
    /\ workers = <<>>
    /\ after_queue = <<>>

DestContents == [RunNames -> {NoTable, StaleTable}]

Init ==
    /\ frontend \in {"cli", "gui"}
    /\ catalog = RunCatalog
    /\ sourceOpens \in BOOLEAN
    /\ db \in [RunNames -> TableContents]
    /\ limitOK \in BOOLEAN
    /\ offsetOK \in BOOLEAN
    /\ chunk_size \in 1..MaxChunk
    /\ ~sourceOpens =>
          /\ db = [t \in RunNames |-> Broken]
          /\ ~limitOK /\ ~offsetOK /\ chunk_size = 1
    /\ dest \in DestContents
    /\ pc = "idle"
    /\ stop_conversion = FALSE
    /\ tables = <<>>
    /\ i = 0
    /\ has_id_column = FALSE
    /\ offset = 0
    /\ first_chunk = TRUE
    /\ df = <<>>
    /\ status = [t \in RunNames |-> "Unstarted"]
    /\ calls = <<>>
    /\ writes = <<>>
    /\ cancelled = FALSE
    /\ report = "none"
    /\ ret = "pending"
    /\ prevValid = FALSE
    /\ prevDest = dest
    /\ openConns = {}
    /\ ExtraInit

Next ==
    \/ StartRun
    \/ ListTables
    \/ BeginTable
    \/ Probe
    \/ ReadBatch
    \/ WriteBatch
    \/ UpdateProgress
    \/ FinishRun
    \/ Stop

Spec == Init /\ [][Next]_vars

\* the command line run again and again on the same source and destination
InitTwice == Init /\ frontend = "cli"

NextTwice ==
    \/ StartRunAfter
    \/ ListTables
    \/ BeginTable
    \/ Probe
    \/ ReadBatch
    \/ WriteBatch
    \/ FinishRun

SpecTwice == InitTwice /\ [][NextTwice]_vars

\* get_table_names alone, on every catalog of at most MaxCatalog rows
InitList ==
    /\ frontend = "cli"
    /\ catalog \in SeqsUpTo(CatalogRows, MaxCatalog)
    /\ sourceOpens \in BOOLEAN
    /\ db = [t \in RunNames |-> Broken]
    /\ limitOK = FALSE
    /\ offsetOK = FALSE
    /\ chunk_size = 1
    /\ dest = [t \in RunNames |-> NoTable]
    /\ pc = "list"
    /\ stop_conversion = FALSE
    /\ tables = <<>>
    /\ i = 0
    /\ has_id_column = FALSE
    /\ offset = 0
    /\ first_chunk = TRUE
    /\ df = <<>>
    /\ status = [t \in RunNames |-> "Unstarted"]
    /\ calls = <<>>
    /\ writes = <<>>
    /\ cancelled = FALSE
    /\ report = "none"
    /\ ret = "pending"
    /\ prevValid = FALSE
    /\ prevDest = dest
    /\ openConns = {}
    /\ ExtraInit

NextList == ListTables

SpecList == InitList /\ [][NextList]_vars

\* the interpreter keeps executing the thread of the run: a step that can be
\* taken is taken
\* the run of the command line, whose convert_table has no callback; what the
\* destination held before has no part in the loop's progress
InitLive == Init /\ frontend = "cli" /\ dest = [t \in RunNames |-> NoTable]

NextLive ==
    \/ StartRun
    \/ ListTables
    \/ BeginTable
    \/ Probe
    \/ ReadBatch
    \/ WriteBatch
    \/ FinishRun

SpecLive == InitLive /\ [][NextLive]_vars /\ WF_vars(NextLive)

\* tables whose identity column is spelled in each of the four ways, holding
\* the identity values 1..n in order
IdSpellings == {"ID", "id", "Id", "iD"}

SpelledTables ==
    {[broken |-> FALSE, columns |-> <<c, "Name">>, rows |-> [k \in 1..n |-> k]] :
        c \in IdSpellings, n \in 0..MaxRows}

InitCase ==
    /\ frontend \in {"cli", "gui"}
    /\ catalog = RunCatalog
    /\ sourceOpens = TRUE
    /\ db \in [RunNames -> SpelledTables]
    /\ limitOK \in BOOLEAN
    /\ offsetOK \in BOOLEAN
    /\ chunk_size \in 1..MaxChunk
    /\ dest = [t \in RunNames |-> NoTable]
    /\ pc = "idle"
    /\ stop_conversion = FALSE
    /\ tables = <<>>
    /\ i = 0
    /\ has_id_column = FALSE
    /\ offset = 0
    /\ first_chunk = TRUE
    /\ df = <<>>
    /\ status = [t \in RunNames |-> "Unstarted"]
    /\ calls = <<>>
    /\ writes = <<>>
    /\ cancelled = FALSE
    /\ report = "none"
    /\ ret = "pending"
    /\ prevValid = FALSE
    /\ prevDest = dest
    /\ openConns = {}
    /\ ExtraInit

SpecCase == InitCase /\ [][Next]_vars

\* ------------------------------------------------------------ get_database_info
\* cursor.execute("SELECT COUNT(*) FROM [t]").fetchone(): the count, or an
\* exception for a table that cannot be read
count_rows(t) ==
    IF db[t].broken THEN [ok |-> FALSE, n |-> 0]
    ELSE [ok |-> TRUE, n |-> Len(db[t].rows)]

\* info['total_records'] += record_count, skipped when the query raised
AddCount(total, r) == IF r.ok THEN total + r.n ELSE total

\* a loop without the inner except clause: the first failing count ends it
NextCountAborting(k, ok) == IF ok THEN k + 1 ELSE Len(tables) + 1

\* the for loop over the tables: the except clause warns and goes on
NextCount(k, ok) == k + 1

RECURSIVE SumRows(_)
\* the rows of the readable tables among names
SumRows(names) ==
    IF names = <<>> THEN 0
    ELSE (IF db[Head(names)].broken THEN 0 ELSE Len(db[Head(names)].rows))
         + SumRows(Tail(names))

\* --info, Show Info, or the summary printed before a conversion
ShowInfo ==
    /\ pc = "idle"
    /\ pc' = "info"
    /\ UNCHANGED <<static, dest, stop_conversion, tables, i, locals, status, calls,
                   writes, cancelled, report, ret, history, openConns, extra>>

\* tables = self.get_table_names(); info = {'tables': tables, 'total_records': 0}
InfoList ==
    /\ pc = "info"
    /\ \/ /\ sourceOpens
          /\ \E raised \in BOOLEAN, yielded \in 0..Len(catalog) :
                LET names == get_table_names(catalog, raised, yielded)
                IN /\ tables' = names
                   /\ info' = [tables |-> names, total_records |-> 0]
          /\ i' = 1
          /\ pc' = "count"
       \/ /\ ~sourceOpens
          /\ pc' = "info_raised"
          /\ UNCHANGED <<tables, i, info>>
    /\ UNCHANGED <<static, dest, stop_conversion, locals, status, calls, writes,
                   cancelled, report, ret, history, openConns, counted, cliVars,
                   guiVars>>

\* one turn of the loop: the count query of tables[i] inside its try
InfoCount ==
    /\ pc = "count"
    /\ i <= Len(tables)
    /\ LET r == count_rows(tables[i])
       IN /\ info' = [info EXCEPT !.total_records = AddCount(@, r)]
          /\ i' = NextCount(i, r.ok)
    /\ counted' = Append(counted, tables[i])
    /\ UNCHANGED <<static, dest, pc, stop_conversion, tables, locals, status, calls,
                   writes, cancelled, report, ret, history, openConns, cliVars,
                   guiVars>>

\* return info
InfoReturn ==
    /\ pc = "count"
    /\ i > Len(tables)
    /\ pc' = "info_done"
    /\ UNCHANGED <<static, dest, stop_conversion, tables, i, locals, status, calls,
                   writes, cancelled, report, ret, history, openConns, extra>>

NextInfo ==
    \/ ShowInfo
    \/ InfoList
    \/ InfoCount
    \/ InfoReturn

SpecInfo == Init /\ [][NextInfo]_vars

\* ------------------------------------------------------------ main
\* a main that logs the error and falls off its end
ExitCodeAlwaysZero(rep) == 0

\* sys.exit(1) in the except clause of main, 0 when main returns
ExitCode(rep) == IF rep = "error" THEN 1 ELSE 0

\* converter = AccessToSQLite(args.access_db, args.output): __init__ raises
\* FileNotFoundError or ValueError on a path that is missing or has another
\* extension, and main's except clause takes it
CliStart ==
    /\ pc = "idle"
    /\ frontend = "cli"
    /\ \E path \in {"ok", "missing", "badext"} :
          /\ inputPath' = path
          /\ IF path = "ok"
             THEN pc' = "info" /\ UNCHANGED report
             ELSE pc' = "done" /\ report' = "error"
    /\ UNCHANGED <<static, dest, stop_conversion, tables, i, locals, status, calls,
                   writes, cancelled, ret, history, openConns, infoVars, exit_code,
                   guiVars>>

\* info = converter.get_database_info() returned or raised; then
\* converter.convert_all_tables(args.chunk_size)
CliAfterInfo ==
    /\ frontend = "cli"
    /\ \/ /\ pc = "info_done"
          /\ pc' = "list"
          /\ UNCHANGED report
       \/ /\ pc = "info_raised"
          /\ pc' = "done"
          /\ report' = "error"
    /\ UNCHANGED <<static, dest, stop_conversion, tables, i, locals, status, calls,
                   writes, cancelled, ret, history, openConns, extra>>

\* the process ends
CliExit ==
    /\ frontend = "cli"
    /\ pc = "done"
    /\ exit_code = -1
    /\ exit_code' = ExitCode(report)
    /\ UNCHANGED <<static, dest, pc, stop_conversion, tables, i, locals, status,
                   calls, writes, cancelled, report, ret, history, openConns,
                   infoVars, inputPath, guiVars>>

InitCli == Init /\ frontend = "cli"

NextCli ==
    \/ CliStart
    \/ InfoList
    \/ InfoCount
    \/ InfoReturn
    \/ CliAfterInfo
    \/ ListTables
    \/ BeginTable
    \/ Probe
    \/ ReadBatch
    \/ WriteBatch
    \/ FinishRun
    \/ CliExit

SpecCli == InitCli /\ [][NextCli]_vars

\* ------------------------------------------------------------ AccessConverterGUI
\* Tk runs the button commands and the after() callbacks one at a time on the
\* main thread, and a message box holds the grab until it is answered, so each
\* handler is one step. A conversion thread is a record in workers: pc is
\* "info" (in get_database_info), "convert" (in convert_all_tables, about to
\* call convert_table on table k of n) or "ended"; its batches are not told
\* apart here.

\* a start_conversion that leaves the Convert button as it is
ConvertStateRunningNormal == "normal"

\* self.convert_btn.config(state=DISABLED)
ConvertStateRunning == "disabled"

Active == {w \in 1..Len(workers) : workers[w].pc # "ended"}

\* the Convert button: start_conversion
StartConversion ==
    /\ frontend = "gui"
    /\ convert_btn = "normal"
    /\ Len(workers) < MaxThreads
    /\ \E access_file \in {"", "ok", "bad"}, output_file \in {"", "out"},
          exists \in BOOLEAN, overwrite \in BOOLEAN :
          IF access_file = "" \/ output_file = ""
          THEN UNCHANGED <<convert_btn, stop_btn, stop_conversion, workers>>
          ELSE IF access_file = "bad"
          THEN /\ convert_btn' = "normal"
               /\ stop_btn' = "disabled"
               /\ UNCHANGED <<stop_conversion, workers>>
          ELSE IF exists /\ ~overwrite
          THEN UNCHANGED <<convert_btn, stop_btn, stop_conversion, workers>>
          ELSE /\ convert_btn' = ConvertStateRunning
               /\ stop_btn' = "normal"
               /\ stop_conversion' = FALSE
               /\ workers' = Append(workers, [pc |-> "info", k |-> 0, n |-> 0])
    /\ UNCHANGED <<static, dest, pc, tables, i, locals, status, calls, writes,
                   cancelled, report, ret, history, openConns, infoVars, cliVars,
                   after_queue>>

\* the Stop button: stop_conversion_func
StopConversionFunc ==
    /\ frontend = "gui"
    /\ stop_btn = "normal"
    /\ stop_conversion' = TRUE
    /\ UNCHANGED <<static, dest, pc, tables, i, locals, status, calls, writes,
                   cancelled, report, ret, history, openConns, extra>>

\* the Show Info button: show_info runs get_database_info on the main thread
GuiShowInfo ==
    /\ frontend = "gui"
    /\ \E access_file \in {"", "ok", "bad"} :
          IF access_file = "ok" /\ sourceOpens
          THEN \E raised \in BOOLEAN, yielded \in 0..Len(catalog) :
                  LET names == get_table_names(catalog, raised, yielded)
                  IN info' = [tables |-> names, total_records |-> SumRows(names)]
          ELSE UNCHANGED info
    /\ UNCHANGED <<static, dest, pc, stop_conversion, tables, i, locals, status,
                   calls, writes, cancelled, report, ret, history, openConns,
                   counted, cliVars, guiVars>>

\* run_conversion, first half: info = self.converter.get_database_info(); the
\* except clause schedules enable_ui and the error box
RunInfo(w) ==
    /\ workers[w].pc = "info"
    /\ \/ /\ sourceOpens
          /\ \E raised \in BOOLEAN, yielded \in 0..Len(catalog) :
                workers' = [workers EXCEPT ![w] =
                    [pc |-> "convert", k |-> 1,
                     n |-> Len(get_table_names(catalog, raised, yielded))]]
          /\ UNCHANGED after_queue
       \/ /\ ~sourceOpens
          /\ workers' = [workers EXCEPT ![w].pc = "ended"]
          /\ after_queue' = after_queue \o <<"enable_ui", "showerror">>
    /\ UNCHANGED <<static, dest, pc, stop_conversion, tables, i, locals, status,
                   calls, writes, cancelled, report, ret, history, openConns,
                   infoVars, cliVars, convert_btn, stop_btn>>

\* one turn of the loop of convert_all_tables: convert_table on table k, whose
\* exception (the one update_progress raises included) the loop swallows
RunTable(w) ==
    /\ workers[w].pc = "convert"
    /\ workers[w].k <= workers[w].n
    /\ workers' = [workers EXCEPT ![w].k = NextTable(@, stop_conversion)]
    /\ UNCHANGED <<static, dest, pc, stop_conversion, tables, i, locals, status,
                   calls, writes, cancelled, report, ret, history, openConns,
                   infoVars, cliVars, convert_btn, stop_btn, after_queue>>

\* run_conversion, the end: self.root.after(0, self.enable_ui) and the box
RunEnd(w) ==
    /\ workers[w].pc = "convert"
    /\ workers[w].k > workers[w].n
    /\ workers' = [workers EXCEPT ![w].pc = "ended"]
    /\ after_queue' = after_queue \o <<"enable_ui", "showinfo">>
    /\ UNCHANGED <<static, dest, pc, stop_conversion, tables, i, locals, status,
                   calls, writes, cancelled, report, ret, history, openConns,
                   infoVars, cliVars, convert_btn, stop_btn>>

RunConversion == \E w \in 1..Len(workers) : RunInfo(w) \/ RunTable(w) \/ RunEnd(w)

\* the main loop takes the next after() callback: enable_ui or a message box
AfterCallback ==
    /\ after_queue # <<>>
    /\ after_queue' = Tail(after_queue)
    /\ IF Head(after_queue) = "enable_ui"
       THEN convert_btn' = "normal" /\ stop_btn' = "disabled"
       ELSE UNCHANGED <<convert_btn, stop_btn>>
    /\ UNCHANGED <<static, dest, pc, stop_conversion, tables, i, locals, status,
                   calls, writes, cancelled, report, ret, history, openConns,
                   infoVars, cliVars, workers>>

\* the batches of a table are not told apart here, so the dialect, the chunk
\* size and what the destination held do not enter and are fixed
InitGui ==
    /\ Init
    /\ frontend = "gui"
    /\ limitOK = sourceOpens
    /\ offsetOK = sourceOpens
    /\ chunk_size = 1
    /\ dest = [t \in RunNames |-> NoTable]

NextGui ==
    \/ StartConversion
    \/ StopConversionFunc
    \/ GuiShowInfo
    \/ RunConversion
    \/ AfterCallback

SpecGui == InitGui /\ [][NextGui]_vars

\* ------------------------------------------------------------ properties
WritesOf(t) == SelectSeq(writes, LAMBDA w : w.table = t)

RECURSIVE Concat(_)
\* the rows of the writes ws, batch after batch
Concat(ws) == IF ws = <<>> THEN <<>> ELSE Head(ws).rows \o Concat(Tail(ws))

Finished(t) == status[t] \in {"Completed", "Failed"}

Ceil(a, b) == (a + b - 1) \div b

\* C1: in a run of convert_all_tables, convert_table is called once for every
\* listed name, in the list's order; a table that fails does not keep the later
\* ones from being attempted, and the loop never raises: once the tables are
\* listed the run ends by returning, with every table called.
C1_EveryTableAttempted ==
    /\ Len(calls) <= Len(tables)
    /\ calls = SubSeq(tables, 1, Len(calls))
    /\ pc = "loop" => Len(calls) = i - 1
    /\ pc \in {"probe", "read", "write", "progress"} =>
          /\ Len(calls) = i
          /\ calls[i] = tables[i]
    /\ ret = "raised" => (tables = <<>> /\ calls = <<>>)
    /\ (pc = "done" /\ ret # "raised") => (ret = "None" /\ calls = tables)

C1_Witness ==
    /\ pc = "done"
    /\ Len(tables) = 2
    /\ calls = tables
    /\ status[tables[1]] = "Failed"
    /\ status[tables[2]] = "Completed"
    /\ WritesOf(tables[2]) # <<>>

\* C2: once update_progress has answered a set stop flag by raising, after a
\* batch was written, nothing more is written in that run, to the table in
\* hand or to a later one, and the destination keeps what it held.
C2_NothingWrittenAfterCancel ==
    [][cancelled => (writes' = writes /\ dest' = dest)]_vars

\* C3: a run that a cancellation stopped is never reported as
\* "Conversion completed successfully!".
C3_CancelledRunNotReportedSuccessful ==
    ~(cancelled /\ report = "success")

\* C4: for a table with an identity column, the batches convert_table wrote,
\* one after the other, are the table's rows in strictly increasing identity
\* order, each row once.
C4_IdentityOrderNoDuplicates ==
    \A t \in RunNames :
        (/\ status[t] = "Completed"
         /\ ~db[t].broken
         /\ HasIdColumn(db[t].columns)) =>
            Concat(WritesOf(t)) = SortAsc(Range(db[t].rows))

\* C5: convert_table on a table of R rows makes exactly ceil(R / chunk_size)
\* writes, each of a non-empty batch (none when R = 0).
C5_CeilBatchWrites ==
    \A t \in RunNames :
        (status[t] = "Completed" /\ ~db[t].broken) =>
            /\ Len(WritesOf(t)) = Ceil(Len(db[t].rows), chunk_size)
            /\ \A k \in 1..Len(WritesOf(t)) : WritesOf(t)[k].rows # <<>>

\* the names a listing of the catalog should hold: its tables and views that
\* do not carry the system prefix
UserNames(cat) ==
    {cat[k].table_name : k \in
        {j \in 1..Len(cat) : /\ cat[j].table_type \in {"TABLE", "VIEW"}
                             /\ ~startswith(cat[j].table_name, MSysPrefix)}}

Sorted(names) ==
    \A j, k \in 1..Len(names) : j < k => StrLess(names[j], names[k])

\* C6: whatever the catalog and whichever enumeration answered, the list
\* get_table_names returns holds no name that starts with MSys, holds every
\* other table or view name once, and is sorted by code point.
C6_ListFilteredDedupedSorted ==
    pc = "loop" =>
        /\ \A k \in 1..Len(tables) : ~startswith(tables[k], MSysPrefix)
        /\ Range(tables) = UserNames(catalog)
        /\ Distinct(tables)
        /\ Sorted(tables)

\* what the run did with table t: the rows written for a table that completed,
\* a failure for one that raised
Outcome(t) ==
    IF status[t] = "Completed"
    THEN [ok |-> TRUE, rows |-> Len(Concat(WritesOf(t)))]
    ELSE [ok |-> FALSE, rows |-> 0]

\* C7: convert_all_tables returns to its caller an outcome for every listed
\* table: the row count of a table that succeeded, a failure for one that
\* failed.
C7_OutcomeForEveryTable ==
    (pc = "done" /\ ret # "raised") =>
        /\ ret # "None"
        /\ DOMAIN ret = Range(tables)
        /\ \A t \in Range(tables) : ret[t] = Outcome(t)

\* C8: a second conversion of the same static source into the same
\* destination leaves every table of the destination with the rows the first
\* one left.
C8_SecondRunSameDestination ==
    (pc = "done" /\ prevValid /\ report = "success") =>
        \A t \in RunNames : dest[t] = prevDest[t]

C8_Witness ==
    /\ pc = "done"
    /\ prevValid
    /\ report = "success"
    /\ \E t \in RunNames :
          /\ status[t] = "Completed"
          /\ Len(WritesOf(t)) >= 2
          /\ dest[t].rows = Concat(WritesOf(t))
          /\ dest[t] = prevDest[t]

\* C9: convert_table on a table without rows writes nothing, and the
\* destination then holds no table of that name, whatever it held before.
C9_EmptyTableAbsent ==
    \A t \in RunNames :
        (status[t] = "Completed" /\ db[t].rows = <<>>) =>
            /\ WritesOf(t) = <<>>
            /\ ~dest[t].exists

\* C10: of the writes of one convert_table the first, and only the first,
\* replaces, and the others append; every written batch has rows; a table
\* with rows whose copy has ended was replaced exactly once.
C10_ReplaceThenAppend ==
    \A t \in RunNames :
        LET ws == WritesOf(t)
        IN /\ \A k \in 1..Len(ws) :
                 /\ ws[k].mode = (IF k = 1 THEN "replace" ELSE "append")
                 /\ ws[k].rows # <<>>
           /\ (Finished(t) /\ db[t].rows # <<>>) =>
                 Cardinality({k \in 1..Len(ws) : ws[k].mode = "replace"}) = 1

C10_Witness ==
    \E t \in RunNames :
        /\ status[t] = "Completed"
        /\ Len(WritesOf(t)) >= 3
        /\ WritesOf(t)[1].mode = "replace"
        /\ WritesOf(t)[2].mode = "append"
        /\ WritesOf(t)[3].mode = "append"

\* C11: when convert_table has returned or raised for a table, the source
\* connection and the destination connection it opened for that table are
\* closed.
C11_ConnectionsClosedOnExit ==
    \A t \in RunNames :
        Finished(t) => (<<t, "access">> \notin openConns /\ <<t, "sqlite">> \notin openConns)

\* C12: get_database_info issues a count query for every listed table, in
\* order; a failing count adds nothing and stops nothing; the call raises only
\* when the tables cannot be listed, and returns the full list with the sum of
\* the counts that succeeded.
C12_InfoCountsEveryTable ==
    /\ pc = "count" => (counted = SubSeq(tables, 1, i - 1) /\ i <= Len(tables) + 1)
    /\ pc = "info_raised" => ~sourceOpens
    /\ pc = "info_done" =>
          /\ counted = tables
          /\ info.tables = tables
          /\ info.total_records = SumRows(tables)

C12_Witness ==
    /\ pc = "info_done"
    /\ Len(tables) = 2
    /\ db[tables[1]].broken
    /\ ~db[tables[2]].broken
    /\ info.total_records = Len(db[tables[2]].rows)
    /\ info.total_records > 0

\* the input path is invalid, or the source cannot be opened
Fatal == inputPath \in {"missing", "badext"} \/ (inputPath = "ok" /\ ~sourceOpens)

\* C13: a fatal failure ends the command-line run before convert_table is
\* called and with the destination untouched, and the process exits with 1; a
\* run whose only failures are those of single tables exits with 0.
C13_FatalAbortsExitCodes ==
    /\ Fatal =>
          /\ calls = <<>>
          /\ writes = <<>>
          /\ openConns = {}
          /\ dest = prevDest
          /\ pc \in {"info", "info_raised", "done"}
    /\ exit_code # -1 =>
          /\ pc = "done"
          /\ exit_code = (IF Fatal THEN 1 ELSE 0)
          /\ ~Fatal => (report = "success" /\ calls = tables)

C13_Witness ==
    /\ exit_code = 1
    /\ inputPath = "ok"
    /\ ~sourceOpens
    /\ \E t \in RunNames : dest[t] = StaleTable

\* C14: at most one conversion thread is active at any time, and the Convert
\* button is disabled from the start of a run until the run has ended and its
\* enable_ui callback has been taken.
C14_OneActiveRun ==
    /\ Cardinality(Active) <= 1
    /\ Active # {} => convert_btn = "disabled"
    /\ convert_btn = "normal" => "enable_ui" \notin Range(after_queue)

C14_Witness ==
    /\ Len(workers) = 2
    /\ workers[1].pc = "ended"
    /\ workers[2].pc = "convert"
    /\ workers[2].k = 2
    /\ stop_conversion

\* the dialect accepts the pagination clause of the strategy table t is paged with
AcceptsPaging(t) == IF HasIdColumn(db[t].columns) THEN limitOK ELSE offsetOK

\* C15: every batch convert_table writes, the first included, holds at most
\* chunk_size rows, unless the source rejects the pagination clause.
C15_BatchesBounded ==
    \A k \in 1..Len(writes) :
        AcceptsPaging(writes[k].table) => Len(writes[k].rows) <= chunk_size

\* C16: on a source that rejects the OFFSET clause, convert_table on a table
\* without ID column does not fail: unless the run is cancelled it completes
\* after one read of the whole table, with the table's rows in the destination
\* once each, in the source's order.
C16_PlainTableOnRejectingSource ==
    \A t \in RunNames :
        (/\ Finished(t)
         /\ ~cancelled
         /\ db[t] \in PlainTables
         /\ ~offsetOK) =>
            /\ status[t] = "Completed"
            /\ Len(WritesOf(t)) = (IF db[t].rows = <<>> THEN 0 ELSE 1)
            /\ Concat(WritesOf(t)) = db[t].rows
            /\ db[t].rows # <<>> => dest[t] = [exists |-> TRUE, rows |-> db[t].rows]

C16_Witness ==
    \E t \in RunNames :
        /\ status[t] = "Completed"
        /\ db[t].columns = <<"Name">>
        /\ Len(db[t].rows) = MaxRows
        /\ chunk_size = 1
        /\ ~offsetOK
        /\ ~limitOK
        /\ prevDest[t] = StaleTable
        /\ dest[t].rows = db[t].rows

\* Unstarted -> Probing -> Paging -> {Completed | Failed}
Rank(st) ==
    CASE st = "Unstarted" -> 0
      [] st = "Probing" -> 1
      [] st = "Paging" -> 2
      [] OTHER -> 3

\* one step of a table's state: never backwards, never out of Completed or
\* Failed, and out of Paging only on an empty batch or an error
StatusStep(t) ==
    LET r == read_sql(t, Query(first_chunk, has_id_column, offset, chunk_size))
    IN /\ Rank(status'[t]) >= Rank(status[t])
       /\ Finished(t) => status'[t] = status[t]
       /\ (status[t] = "Paging" /\ status'[t] = "Completed") =>
             (pc = "read" /\ r.rows = <<>>)
       /\ (status[t] = "Paging" /\ status'[t] = "Failed") =>
             (pc = "read" /\ ~r.ok)

\* C17: the paging loop of convert_table terminates: a table that is being
\* copied reaches Completed or Failed, Paging is left through an empty batch
\* or an error, and no state of a table is entered again.
C17_PagingTerminates ==
    /\ [][\A t \in RunNames : StatusStep(t)]_vars
    /\ \A t \in RunNames : (status[t] \in {"Probing", "Paging"}) ~> Finished(t)

C17_Witness ==
    \E t \in RunNames :
        /\ status[t] = "Completed"
        /\ HasIdColumn(db[t].columns)
        /\ Len(WritesOf(t)) >= 3

\* a column is named ID in whatever case
HasIdColumnAnyCase(columns) == Range(columns) \cap IdSpellings # {}

\* C18: while a table is paged, the strategy is the identity-based one exactly
\* when one of the probed columns is named ID in whatever case.
C18_StrategyIgnoresCase ==
    pc \in {"read", "write", "progress"} =>
        has_id_column = HasIdColumnAnyCase(db[tables[i]].columns)

====
